---- MODULE Spec2Model ----
(***************************************************************************)
(* Model of lightning_pose/apps/utils.py: the file-discovery helpers, the  *)
(* table merge and the metric derivation of the streamlit apps.            *)
(*                                                                         *)
(* Strings are sequences of one-character strings, so that Python's        *)
(* substring test (`in`) and str.split are computed, not assumed.          *)
(* DataFrames are records [index, columns, rows]; a DataFrame that the     *)
(* code receives by reference lives in `heap`, keyed by an object id, so   *)
(* that an in-place change is visible to every holder of the reference.    *)
(* The streamlit cache decorators are an external collaborator and are not *)
(* modelled: every call runs the function body.                            *)
(***************************************************************************)
EXTENDS Integers, Sequences, FiniteSets, TLC

VARIABLES
    pc,     \* position of the call in progress
    fs,     \* the file system the call reads (never written)
    args,   \* the arguments of the call (tables are object ids into heap)
    heap,   \* object id -> DataFrame, the mutable tables
    heap0,  \* history variable: heap as it was when the call started
    ret,    \* the value returned, [kind |-> "none"] before the return
    loop    \* local variables of build_precomputed_metrics_df

vars == <<pc, fs, args, heap, heap0, ret, loop>>

NoRet == [kind |-> "none"]
NoLoop == [i |-> 0]
NoHeap == <<>>

----------------------------------------------------------------------------
(* Python strings                                                          *)

\* Python: sub in s
Contains(s, sub) ==
    \E k \in 0..(Len(s) - Len(sub)) : SubSeq(s, k + 1, k + Len(sub)) = sub

\* Python: s.find(sub) for a sub that occurs in s (0-based)
Find(s, sub) ==
    CHOOSE k \in 0..(Len(s) - Len(sub)) :
        /\ SubSeq(s, k + 1, k + Len(sub)) = sub
        /\ \A m \in 0..(k - 1) : SubSeq(s, m + 1, m + Len(sub)) # sub

\* Python: s.split(sep)[0]
SplitFirst(s, sep) ==
    IF Contains(s, sep) THEN SubSeq(s, 1, Find(s, sep)) ELSE s

\* Python: s.endswith(suf)
EndsWith(s, suf) ==
    /\ Len(suf) <= Len(s)
    /\ SubSeq(s, Len(s) - Len(suf) + 1, Len(s)) = suf

\* Python: s.count(ch) for a one-character ch
RECURSIVE Count(_, _)
Count(s, ch) ==
    IF s = <<>> THEN 0
    ELSE (IF Head(s) = ch THEN 1 ELSE 0) + Count(Tail(s), ch)

\* sequences over S of length at most n without repeated elements
RECURSIVE DistinctSeqs(_, _)
DistinctSeqs(S, n) ==
    IF n = 0 THEN {<<>>}
    ELSE LET shorter == DistinctSeqs(S, n - 1)
         IN  shorter \cup
             {Append(q, x) : <<q, x>> \in
                 {qx \in shorter \X S :
                     \A k \in 1..Len(qx[1]) : qx[1][k] # qx[2]}}

Range(q) == {q[k] : k \in 1..Len(q)}

w_predictions == <<"p","r","e","d","i","c","t","i","o","n","s">>
w_new == <<"n","e","w">>
w_temporal == <<"t","e","m","p","o","r","a","l">>
w_pca == <<"p","c","a">>
w_csv == <<".","c","s","v">>
w_temporal_norm_csv == <<"_">> \o w_temporal \o <<"_","n","o","r","m">> \o w_csv
w_other == <<"o","t","h","e","r">>

----------------------------------------------------------------------------
(* update_labeled_file_list                                                *)

MaxFolders == 2
MaxFiles == 3

\* what os.listdir can return for a model folder: names with their kind
LabeledEntries ==
    { [name |-> <<"m","_">> \o w_predictions \o w_csv, isfile |-> TRUE],
      [name |-> <<"m","_">> \o w_predictions \o <<"_">> \o w_new \o w_csv,
       isfile |-> TRUE],
      [name |-> w_other \o w_csv, isfile |-> TRUE],
      [name |-> w_predictions \o <<"_">> \o w_new, isfile |-> FALSE] }

\* lines 24-25: the names os.listdir gives that os.path.isfile accepts
ListFiles(listing) ==
    LET IsFile(e) == e.isfile
        files == SelectSeq(listing, IsFile)
    IN  [k \in 1..Len(files) |-> files[k].name]

\* lines 28-34: the test a file passes to be returned
LabeledKeep_noOod(file, use_ood) ==
    /\ Contains(file, w_predictions)
    /\ ~Contains(file, w_new)

LabeledKeep(file, use_ood) ==
    /\ Contains(file, w_predictions)
    /\ \/ (~Contains(file, w_new) /\ ~use_ood)
       \/ (Contains(file, w_new) /\ use_ood)

update_labeled_file_list(model_preds_folders, use_ood) ==
    [f \in 1..Len(model_preds_folders) |->
        LET Keep(file) == LabeledKeep(file, use_ood)
        IN  SelectSeq(ListFiles(fs[model_preds_folders[f]]), Keep)]

InitLabeled ==
    /\ pc = "call"
    /\ \E n \in 0..MaxFolders :
         /\ fs \in [1..n -> DistinctSeqs(LabeledEntries, MaxFiles)]
         /\ args \in {[model_preds_folders |-> [k \in 1..n |-> k],
                         use_ood |-> b] : b \in BOOLEAN}
    /\ heap = NoHeap /\ heap0 = NoHeap
    /\ ret = NoRet
    /\ loop = NoLoop

CallLabeled ==
    /\ pc = "call"
    /\ ret' = [kind |-> "ok",
               value |-> update_labeled_file_list(args.model_preds_folders,
                                                  args.use_ood)]
    /\ pc' = "done"
    /\ UNCHANGED <<fs, args, heap, heap0, loop>>

NextLabeled == CallLabeled

SpecLabeled == InitLabeled /\ [][NextLabeled]_vars

\* C1: the call returns one list per folder, in folder order, and the list
\* of a folder holds exactly the files of the folder whose name contains
\* "predictions" and for which ("new" in name) = use_ood, each once.
C1_LabeledFiles ==
    pc = "done" =>
        /\ Len(ret.value) = Len(args.model_preds_folders)
        /\ \A f \in 1..Len(args.model_preds_folders) :
             LET listing == fs[args.model_preds_folders[f]]
                 got == ret.value[f]
             IN  /\ Range(got) =
                        {e.name : e \in
                            {e \in Range(listing) :
                                /\ e.isfile
                                /\ Contains(e.name, w_predictions)
                                /\ Contains(e.name, w_new) = args.use_ood}}
                 /\ Cardinality(Range(got)) = Len(got)

\* the spec's example: the three files in one folder, use_ood TRUE, give the
\* "new" predictions file alone
C1_Witness ==
    /\ pc = "done"
    /\ args.use_ood
    /\ Len(args.model_preds_folders) = 2
    /\ \E f \in 1..2 :
         /\ Len(fs[args.model_preds_folders[f]]) = 3
         /\ ret.value[f] =
              << <<"m","_">> \o w_predictions \o <<"_">> \o w_new \o w_csv >>

----------------------------------------------------------------------------
(* get_all_videos                                                          *)

\* what os.listdir can return for <model folder>/video_preds
VideoEntries ==
    { [name |-> <<"v","1">> \o w_temporal_norm_csv, isfile |-> TRUE],
      [name |-> <<"v","1">> \o w_csv, isfile |-> TRUE],
      [name |-> <<"v","2","_">> \o w_pca \o <<"_","x">> \o w_csv,
       isfile |-> TRUE],
      [name |-> <<"v","3","_">> \o w_temporal \o w_csv, isfile |-> TRUE],
      [name |-> <<"v","4">> \o w_csv \o <<".","g","z">>, isfile |-> TRUE],
      [name |-> <<"v","5">>, isfile |-> FALSE] }

\* lines 64-70: the identifiers one file adds to ret_videos
VideoIds(file) ==
    IF Contains(file, w_temporal)
    THEN {SplitFirst(file, w_temporal_norm_csv)}
    ELSE IF ~Contains(file, w_temporal) /\ ~Contains(file, w_pca)
         THEN {SplitFirst(file, w_csv)}
         ELSE {}

\* lines 60-71; list(ret_videos) has no defined order, so the result is the set
get_all_videos(model_preds_folders) ==
    UNION {VideoIds(file) :
              file \in UNION {Range(ListFiles(fs[model_preds_folders[f]])) :
                                 f \in 1..Len(model_preds_folders)}}

MaxVideoFiles == 2

InitVideos ==
    /\ pc = "call"
    /\ \E n \in 0..MaxFolders :
         /\ fs \in [1..n -> DistinctSeqs(VideoEntries, MaxVideoFiles)]
         /\ args = [model_preds_folders |-> [k \in 1..n |-> k]]
    /\ heap = NoHeap /\ heap0 = NoHeap
    /\ ret = NoRet
    /\ loop = NoLoop

CallVideos ==
    /\ pc = "call"
    /\ ret' = [kind |-> "ok", value |-> get_all_videos(args.model_preds_folders)]
    /\ pc' = "done"
    /\ UNCHANGED <<fs, args, heap, heap0, loop>>

NextVideos == CallVideos

SpecVideos == InitVideos /\ [][NextVideos]_vars

\* the identifier the claim gives a file: the name without the suffix
\* "_temporal_norm.csv" when the name ends with it; else the name without a
\* final ".csv" when neither "temporal" nor "pca" is in it; else none
StatedVideoIds(file) ==
    IF EndsWith(file, w_temporal_norm_csv)
    THEN {SubSeq(file, 1, Len(file) - Len(w_temporal_norm_csv))}
    ELSE IF ~Contains(file, w_temporal) /\ ~Contains(file, w_pca)
         THEN {IF EndsWith(file, w_csv)
               THEN SubSeq(file, 1, Len(file) - Len(w_csv))
               ELSE file}
         ELSE {}

\* C2: the call returns exactly the identifiers of the files of the folders'
\* video_preds directories: suffix "_temporal_norm.csv" stripped, else suffix
\* ".csv" stripped when neither "temporal" nor "pca" is in the name, every
\* other file skipped.
C2_VideoIdsAsStated ==
    pc = "done" =>
        ret.value =
            UNION {StatedVideoIds(e.name) :
                      e \in {e \in UNION {Range(fs[f]) : f \in DOMAIN fs} :
                                e.isfile}}

\* the part of C2 the code does satisfy: on the spec's example files the
\* result is {"v1"}
C2_ExampleHolds ==
    (/\ pc = "done"
     /\ UNION {Range(ListFiles(fs[f])) : f \in DOMAIN fs} \subseteq
            { <<"v","1">> \o w_temporal_norm_csv, <<"v","1">> \o w_csv,
              <<"v","2","_">> \o w_pca \o <<"_","x">> \o w_csv }
     /\ \E f \in DOMAIN fs : \E k \in 1..Len(fs[f]) :
            fs[f][k].name \in { <<"v","1">> \o w_temporal_norm_csv,
                                <<"v","1">> \o w_csv })
    => ret.value = { <<"v","1">> }

----------------------------------------------------------------------------
(* get_model_folders                                                       *)

sep == "/"

\* directory names are one character long, so a path string is a sequence of
\* names, "." and separators
DirNames == {"a", "b"}
MaxDepth == 3

\* a directory is the sequence of names leading to it from the file system
\* root <<>>; the process's working directory is the file system root
AllDirs == UNION {[1..d -> DirNames] : d \in 0..MaxDepth}

IsPrefix(p, q) == Len(p) <= Len(q) /\ SubSeq(q, 1, Len(p)) = p

\* the directory trees: sets of directories closed under taking the parent
DirTrees ==
    {T \in SUBSET AllDirs :
        /\ <<>> \in T
        /\ \A d \in T : d = <<>> \/ SubSeq(d, 1, Len(d) - 1) \in T}

\* the directory a path string names: empty components and "." are skipped
RECURSIVE Components(_)
Components(path) ==
    IF path = <<>> THEN <<>>
    ELSE IF Head(path) \in {sep, "."} THEN Components(Tail(path))
         ELSE <<Head(path)>> \o Components(Tail(path))

\* os.scandir(path) succeeds: the empty string names no directory
IsDir(path) == path # <<>> /\ Components(path) \in fs

\* Python: os.path.join(a, b) for a relative b
PathJoin(a, b) ==
    IF a = <<>> THEN b
    ELSE IF a[Len(a)] = sep THEN a \o b ELSE a \o <<sep>> \o b

\* os.walk(top): yields top, then walks each subdirectory (those named in
\* DirNames that exist), top down; yields nothing for a top it cannot scan
RECURSIVE os_walk(_)
os_walk(top) ==
    IF ~IsDir(top) THEN <<>>
    ELSE <<top>> \o os_walk(PathJoin(top, <<"a">>))
                 \o os_walk(PathJoin(top, <<"b">>))

\* line 212: the test a walked directory passes to be returned
AtModelDepth(root, model_dir) ==
    Count(root, sep) - Count(model_dir, sep) = 2

\* lines 207-208: strip trailing slash if present
StripTrailingSep(model_dir) ==
    IF model_dir[Len(model_dir)] = sep
    THEN SubSeq(model_dir, 1, Len(model_dir) - 1)
    ELSE model_dir

get_model_folders(model_dir) ==
    LET stripped == StripTrailingSep(model_dir)
        Keep(root) == AtModelDepth(root, stripped)
    IN  SelectSeq(os_walk(stripped), Keep)

\* the spellings of a root the caller may pass (never the empty string)
RootSpellings ==
    { <<"a">>, <<"a", sep>>, <<"a", sep, sep>>, <<sep, "a">>,
      <<sep, "a", sep>>, <<".">>, <<".", sep>>, <<sep>>,
      <<".", sep, "a">>, <<"a", sep, "b">>, <<"a", sep, "b", sep>> }

\* the spellings with no doubled or redundant separator, other than the file
\* system root itself
NormalRoot(model_dir) ==
    /\ model_dir # <<sep>>
    /\ \A k \in 1..(Len(model_dir) - 1) :
           ~(model_dir[k] = sep /\ model_dir[k + 1] = sep)

InitDirs ==
    /\ pc = "call"
    /\ fs \in DirTrees
    /\ args \in {[model_dir |-> r] : r \in RootSpellings}
    /\ heap = NoHeap /\ heap0 = NoHeap
    /\ ret = NoRet
    /\ loop = NoLoop

CallDirs ==
    /\ pc = "call"
    /\ ret' = [kind |-> "ok", value |-> get_model_folders(args.model_dir)]
    /\ pc' = "done"
    /\ UNCHANGED <<fs, args, heap, heap0, loop>>

NextDirs == CallDirs

SpecDirs == InitDirs /\ [][NextDirs]_vars

\* the directories that lie exactly two levels below the root
TwoBelow(model_dir) ==
    {d \in fs : /\ IsPrefix(Components(model_dir), d)
                /\ Len(d) = Len(Components(model_dir)) + 2}

\* C3: the call returns exactly the directories two levels below the root,
\* each once (none when there is none), and the result is the same whether
\* or not the root is given with a trailing path separator.
C3_TwoLevelsAsStated ==
    pc = "done" =>
        /\ {Components(r) : r \in Range(ret.value)} = TwoBelow(args.model_dir)
        /\ Cardinality(Range(ret.value)) = Len(ret.value)
        /\ args.model_dir[Len(args.model_dir)] # sep =>
               get_model_folders(args.model_dir \o <<sep>>) = ret.value

\* what the code does satisfy: C3 for every root spelled without a doubled
\* separator, the file system root excepted
C3_NormalRoots ==
    (pc = "done" /\ NormalRoot(args.model_dir)) =>
        /\ {Components(r) : r \in Range(ret.value)} = TwoBelow(args.model_dir)
        /\ Cardinality(Range(ret.value)) = Len(ret.value)
        /\ args.model_dir[Len(args.model_dir)] # sep =>
               get_model_folders(args.model_dir \o <<sep>>) = ret.value

----------------------------------------------------------------------------
(* DataFrames                                                              *)

\* a DataFrame: its row labels, its column labels and, per row, one cell
\* per column
DataFrame(index, columns, rows) ==
    [index |-> index, columns |-> columns, rows |-> rows]

NRows(df) == Len(df.index)
NCols(df) == Len(df.columns)

\* the missing value (the cells of the input tables are naturals)
NaN == -1

\* the positions of the columns labelled `label`, in column order
ColPositions(df, label) ==
    SelectSeq([c \in 1..NCols(df) |-> c], LAMBDA c : df.columns[c] = label)

\* the row of df labelled `label`, or a row of missing values
RowOf(df, label) ==
    IF \E r \in 1..NRows(df) : df.index[r] = label
    THEN df.rows[CHOOSE r \in 1..NRows(df) : df.index[r] = label]
    ELSE [c \in 1..NCols(df) |-> NaN]

PdConcatColumns_swapped(a, b) ==
    DataFrame(a.index, b.columns \o a.columns,
              [r \in 1..NRows(a) |-> RowOf(b, a.index[r]) \o a.rows[r]])

\* pd.concat([a, b], axis=1) for uniquely labelled rows: the columns of a,
\* then those of b, over the union of the row labels (those of a first)
PdConcatColumns(a, b) ==
    IF a.index = b.index
    THEN DataFrame(a.index, a.columns \o b.columns,
                   [r \in 1..NRows(a) |-> a.rows[r] \o b.rows[r]])
    ELSE LET index == a.index \o
                      SelectSeq(b.index, LAMBDA l : l \notin Range(a.index))
         IN  DataFrame(index, a.columns \o b.columns,
                       [r \in 1..Len(index) |->
                           RowOf(a, index[r]) \o RowOf(b, index[r])])

----------------------------------------------------------------------------
(* concat_dfs                                                              *)

\* Python: s.strip()
RECURSIVE LStrip(_)
LStrip(s) == IF s # <<>> /\ Head(s) = " " THEN LStrip(Tail(s)) ELSE s

RECURSIVE RStrip(_)
RStrip(s) ==
    IF s # <<>> /\ s[Len(s)] = " " THEN RStrip(SubSeq(s, 1, Len(s) - 1)) ELSE s

Strip(s) == RStrip(LStrip(s))

\* Python: "_".join(col) for a two-level column label
JoinLevels(col) == col[1] \o <<"_">> \o col[2]

\* lines 122-125
strip_cols_append_name_noName(df, name) ==
    DataFrame(df.index,
              [c \in 1..NCols(df) |-> Strip(JoinLevels(df.columns[c]))],
              df.rows)

strip_cols_append_name(df, name) ==
    DataFrame(df.index,
              [c \in 1..NCols(df) |->
                  Strip(JoinLevels(df.columns[c])) \o <<"_">> \o name],
              df.rows)

\* line 81: [c[0] for c in df_concat.columns[1::3]]
BaseColnames(df) ==
    [k \in 1..((NCols(df) + 1) \div 3) |-> df.columns[3 * k - 1][1]]

\* lines 76-87, over the mapping's items in iteration order; every table is
\* copied before its columns are renamed, so the heap is only read
RECURSIVE ConcatFrom(_, _, _)
ConcatFrom(df_concat, items, k) ==
    IF k > Len(items) THEN df_concat
    ELSE ConcatFrom(
             PdConcatColumns(df_concat,
                 strip_cols_append_name(heap[items[k].df], items[k].name)),
             items, k + 1)

concat_dfs(dframes) ==
    [df_concat |->
        ConcatFrom(strip_cols_append_name(heap[dframes[1].df], dframes[1].name),
                   dframes, 2),
     base_colnames |-> BaseColnames(heap[dframes[1].df])]

MaxModels == 2

ModelNames == { <<"m","1">>, <<"m","2">>, <<"m","3">> }

\* two-level column layouts: a leading label column, then x, y, likelihood
\* per keypoint; labels may carry blanks that strip() removes
ColumnLayouts ==
    LET kp(k) == << <<k, <<"x">> >>, <<k, <<"y">> >>, <<k, <<"l"," ">> >> >>
        lead == << << <<" ","s">>, <<"c">> >> >>
    IN  { <<>>,
          lead \o kp(<<"A">>),
          lead \o kp(<<"B">>) \o kp(<<"A">>),
          << << <<"A">>, <<"x">> >> >> }

RowIndexes == { <<>>, <<0>>, <<0, 1>>, <<0, 2>> }

\* the cell of row `label`, column c of an input table
Cell(label, c) == 10 * label + c

InputTables ==
    {DataFrame(index, columns,
               [r \in 1..Len(index) |->
                   [c \in 1..Len(columns) |-> Cell(index[r], c)]]) :
        <<index, columns>> \in RowIndexes \X ColumnLayouts}

InitConcat ==
    /\ pc = "call"
    /\ fs = {}
    /\ \E names \in DistinctSeqs(ModelNames, MaxModels) :
         /\ names # <<>>
         /\ heap \in [1..Len(names) -> InputTables]
         /\ args = [dframes |-> [k \in 1..Len(names) |->
                                    [name |-> names[k], df |-> k]]]
    /\ heap0 = heap
    /\ ret = NoRet
    /\ loop = NoLoop

CallConcat ==
    /\ pc = "call"
    /\ ret' = [kind |-> "ok", value |-> concat_dfs(args.dframes)]
    /\ pc' = "done"
    /\ UNCHANGED <<fs, args, heap, heap0, loop>>

NextConcat == CallConcat

SpecConcat == InitConcat /\ [][NextConcat]_vars

SameIndex(dframes) ==
    \A k \in 1..Len(dframes) : heap0[dframes[k].df].index =
                               heap0[dframes[1].df].index

\* the number of columns of the tables before the k-th
RECURSIVE ColsBefore(_, _)
ColsBefore(dframes, k) ==
    IF k = 1 THEN 0
    ELSE ColsBefore(dframes, k - 1) + NCols(heap0[dframes[k - 1].df])

\* C4: for tables with the same row index, the merged table has the rows of
\* each input and as many columns as the inputs together; the k-th model's
\* cells fill the k-th block of columns, in mapping order, and every column
\* name of that block ends in "_" + the model's name.
C4_ConcatShape ==
    (pc = "done" /\ SameIndex(args.dframes)) =>
        LET out == ret.value.df_concat
            n == Len(args.dframes)
        IN  /\ \A k \in 1..n : NRows(out) = NRows(heap0[args.dframes[k].df])
            /\ NCols(out) = ColsBefore(args.dframes, n + 1)
            /\ \A r \in 1..NRows(out) : Len(out.rows[r]) = NCols(out)
            /\ \A k \in 1..n :
                 LET in == heap0[args.dframes[k].df]
                     off == ColsBefore(args.dframes, k)
                 IN  \A c \in 1..NCols(in) :
                       /\ EndsWith(out.columns[off + c],
                                   <<"_">> \o args.dframes[k].name)
                       /\ \A r \in 1..NRows(in) :
                            out.rows[r][off + c] = in.rows[r][c]

\* two models with two rows each and different column counts were merged
C4_Witness ==
    /\ pc = "done"
    /\ Len(args.dframes) = 2
    /\ SameIndex(args.dframes)
    /\ NRows(heap0[1]) = 2
    /\ NCols(heap0[1]) = 4
    /\ NCols(heap0[2]) = 7
    /\ NCols(ret.value.df_concat) = 11
    /\ ret.value.base_colnames = << <<"A">> >>

\* without the same row index the row count is not kept: the merged table
\* has the union of the row labels
C4_UnionOfRows ==
    pc = "done" =>
        Range(ret.value.df_concat.index) =
            UNION {Range(heap0[args.dframes[k].df].index) :
                      k \in 1..Len(args.dframes)}

----------------------------------------------------------------------------
(* get_precomputed_error and compute_confidence                            *)

l_model_name == <<"m","o","d","e","l","_","n","a","m","e">>
l_mean == <<"m","e","a","n">>
l_img_file == <<"i","m","g","_","f","i","l","e">>
l_set == <<"s","e","t">>
l_img == <<"i","m","g">>

\* df[label] = cells (one per row): every column so labelled is overwritten,
\* or a new last column is added
SetColumn(df, label, cells) ==
    IF \E c \in 1..NCols(df) : df.columns[c] = label
    THEN DataFrame(df.index, df.columns,
                   [r \in 1..NRows(df) |->
                       [c \in 1..NCols(df) |->
                           IF df.columns[c] = label THEN cells[r]
                           ELSE df.rows[r][c]]])
    ELSE DataFrame(df.index, Append(df.columns, label),
                   [r \in 1..NRows(df) |-> Append(df.rows[r], cells[r])])

\* df.rename(columns={old: new}, inplace=True)
RenameColumn(df, old, new) ==
    DataFrame(df.index,
              [c \in 1..NCols(df) |->
                  IF df.columns[c] = old THEN new ELSE df.columns[c]],
              df.rows)

\* Python: keypoint_names[:-1]
AllButLast(q) == SubSeq(q, 1, Len(q) - 1)

RECURSIVE SumSeq(_)
SumSeq(q) == IF q = <<>> THEN 0 ELSE Head(q) + SumSeq(Tail(q))

\* the mean of a sequence of numbers, as the fraction num / den; the mean of
\* no number is NaN (den = 0)
Mean(q) == [num |-> SumSeq(q), den |-> Len(q)]

\* the positions of the columns df[labels] selects
RECURSIVE SelectColumns(_, _)
SelectColumns(df, labels) ==
    IF labels = <<>> THEN <<>>
    ELSE ColPositions(df, Head(labels)) \o SelectColumns(df, Tail(labels))

\* lines 170, 195: the labels whose columns are averaged
MeanLabels_all(keypoint_names) == keypoint_names

MeanLabels(keypoint_names) == AllButLast(keypoint_names)

\* df[labels].mean(axis=1), one fraction per row
RowMeans(df, labels) ==
    LET cols == SelectColumns(df, labels)
    IN  [r \in 1..NRows(df) |->
            Mean([k \in 1..Len(cols) |-> df.rows[r][cols[k]]])]

\* lines 168-173.  df_ is df itself: the table is changed in place and the
\* same object is returned.  The outcome gives the table as the call leaves
\* it; a label of keypoint_names[:-1] that is no column raises KeyError at
\* line 170, after line 169 has added the model_name column.
get_precomputed_error(df, keypoint_names, model_name) ==
    LET named == SetColumn(df, l_model_name,
                           [r \in 1..NRows(df) |-> model_name])
        labels == MeanLabels(keypoint_names)
    IN  IF \E k \in 1..Len(labels) : ColPositions(named, labels[k]) = <<>>
        THEN [kind |-> "KeyError", df |-> named]
        ELSE LET meaned == SetColumn(named, l_mean, RowMeans(named, labels))
             IN  [kind |-> "ok",
                  df |-> RenameColumn(meaned, meaned.columns[1], l_img_file)]

\* line 180: the table ends with a "set" column
HasSetColumn(df) == NCols(df) % 3 = 1

\* lines 182, 185: the columns that are reshaped into triplets
TripletColumns(df) == IF HasSetColumn(df) THEN NCols(df) - 1 ELSE NCols(df)

\* numpy: array.reshape(rows, -1, 3) succeeds; the -1 cannot be inferred for
\* a table without rows
ReshapeOk(df) == NRows(df) > 0 /\ TripletColumns(df) % 3 = 0

Results_second(df, r, c) == df.rows[r][3 * (c - 1) + 2]

\* line 188: tmp[:, :, 2], the third value of the c-th triplet of row r
Results(df, r, c) == df.rows[r][3 * (c - 1) + 3]

\* lines 180-200; the input is only read, the result is a new table with
\* rows numbered from 0
compute_confidence(df, keypoint_names, model_name) ==
    IF ~ReshapeOk(df) THEN [kind |-> "ValueError"]
    ELSE IF Len(keypoint_names) > TripletColumns(df) \div 3
    THEN [kind |-> "IndexError"]
    ELSE
    LET K == Len(keypoint_names)
        conf == DataFrame([r \in 1..NRows(df) |-> r - 1], keypoint_names,
                          [r \in 1..NRows(df) |->
                              [c \in 1..K |-> Results(df, r, c)]])
        named == SetColumn(conf, l_model_name,
                           [r \in 1..NRows(df) |-> model_name])
        meaned == SetColumn(named, l_mean,
                            RowMeans(named, MeanLabels(keypoint_names)))
    IN  [kind |-> "ok",
         df |-> IF HasSetColumn(df)
                THEN SetColumn(
                         SetColumn(meaned, l_set,
                                   [r \in 1..NRows(df) |->
                                       df.rows[r][NCols(df)]]),
                         l_img_file, df.index)
                ELSE meaned]

MaxRows == 2
MaxKeypoints == 3

AllKeypoints == << <<"A">>, <<"B">>, <<"C">>, <<"D">> >>

\* the keypoint-name lists: distinct names, at least one
KeypointLists == {SubSeq(AllKeypoints, 1, K) : K \in 1..MaxKeypoints}

\* per keypoint an x, a y and a third column labelled with the keypoint
RECURSIVE TripletLabels(_)
TripletLabels(T) ==
    IF T = 0 THEN <<>>
    ELSE TripletLabels(T - 1) \o
         << AllKeypoints[T] \o <<"x">>, AllKeypoints[T] \o <<"y">>,
            AllKeypoints[T] >>

\* one column per keypoint
ErrorLabels(T) == SubSeq(AllKeypoints, 1, T)

\* flat column layouts: triplets with zero, one ("set") or two further
\* columns, and one column per keypoint with or without a leading label column
MetricLayouts ==
    {TripletLabels(T) \o extra :
        T \in 0..MaxKeypoints, extra \in {<<>>, <<l_set>>, <<l_set, <<"z">> >>}}
    \cup
    {lead \o ErrorLabels(T) :
        T \in 0..MaxKeypoints, lead \in {<<>>, <<l_img>>}}

MetricTable(nrows, columns) ==
    DataFrame([r \in 1..nrows |-> r - 1], columns,
              [r \in 1..nrows |-> [c \in 1..Len(columns) |-> Cell(r - 1, c)]])

MetricTables ==
    {MetricTable(n, columns) : n \in 0..MaxRows, columns \in MetricLayouts}

InitMetric ==
    /\ pc = "call"
    /\ fs = {}
    /\ heap \in [{1} -> MetricTables]
    /\ args \in {[op |-> op, df |-> 1, keypoint_names |-> kp,
                  model_name |-> <<"m","1">>] :
                    op \in {"error", "confidence"}, kp \in KeypointLists}
    /\ heap0 = heap
    /\ ret = NoRet
    /\ loop = NoLoop

CallError ==
    /\ pc = "call"
    /\ args.op = "error"
    /\ LET out == get_precomputed_error(heap[args.df], args.keypoint_names,
                                        args.model_name)
       IN  /\ heap' = [heap EXCEPT ![args.df] = out.df]
           /\ ret' = [kind |-> out.kind, ref |-> args.df]
    /\ pc' = "done"
    /\ UNCHANGED <<fs, args, heap0, loop>>

CallConfidence ==
    /\ pc = "call"
    /\ args.op = "confidence"
    /\ ret' = compute_confidence(heap[args.df], args.keypoint_names,
                                 args.model_name)
    /\ pc' = "done"
    /\ UNCHANGED <<fs, args, heap, heap0, loop>>

NextMetric == CallError \/ CallConfidence

SpecMetric == InitMetric /\ [][NextMetric]_vars

\* the table a finished call returned
Returned == IF args.op = "error" THEN heap[ret.ref] ELSE ret.df

\* the cell of row r in the (first) column labelled `label`
CellAt(df, r, label) == df.rows[r][ColPositions(df, label)[1]]

\* the value of the k-th keypoint in row r: its column of the input table
\* for the pixel error, its column of the result for the confidence
KeypointValue(r, k) ==
    IF args.op = "error"
    THEN CellAt(heap0[args.df], r, args.keypoint_names[k])
    ELSE CellAt(Returned, r, args.keypoint_names[k])

RECURSIVE SumFirst(_, _)
SumFirst(r, n) == IF n = 0 THEN 0 ELSE SumFirst(r, n - 1) + KeypointValue(r, n)

\* C5: for a keypoint list of length K >= 2 the "mean" column of the result
\* is, in every row, the sum of the row's values of the first K - 1
\* keypoints divided by K - 1; the last keypoint is left out.
C5_MeanExcludesLast ==
    (pc = "done" /\ ret.kind = "ok" /\ Len(args.keypoint_names) >= 2) =>
        \A r \in 1..NRows(Returned) :
            LET K == Len(args.keypoint_names)
                mean == CellAt(Returned, r, l_mean)
            IN  /\ mean.den = K - 1
                /\ mean.num = SumFirst(r, K - 1)

\* the spec's example: keypoints [A, B, C] and the row [1, 2, 3] give the
\* mean 3/2
C5_Witness ==
    /\ pc = "done"
    /\ ret.kind = "ok"
    /\ args.op = "error"
    /\ args.keypoint_names = << <<"A">>, <<"B">>, <<"C">> >>
    /\ heap0[args.df].columns = args.keypoint_names
    /\ NRows(heap0[args.df]) >= 1
    /\ heap0[args.df].rows[1] = <<1, 2, 3>>
    /\ CellAt(Returned, 1, l_mean) = [num |-> 3, den |-> 2]

\* C7: after get_precomputed_error or compute_confidence returns, the table
\* that was passed in has the columns, column names and values it had
\* before the call.
C7_InputsUnchanged ==
    pc = "done" =>
        /\ heap[args.df].columns = heap0[args.df].columns
        /\ heap[args.df].index = heap0[args.df].index
        /\ \A r \in 1..NRows(heap0[args.df]) :
               Len(heap[args.df].rows[r]) = Len(heap0[args.df].rows[r])

\* the part of C7 the code satisfies: compute_confidence leaves its input alone
C7_ConfidenceReadsOnly ==
    (pc = "done" /\ args.op = "confidence") => heap = heap0

\* C8: compute_confidence takes the last column as "set" exactly when the
\* column count mod 3 is 1; the column of the c-th keypoint holds the third
\* value of the c-th triplet; the result has "set" (the last input column)
\* and "img_file" (the input's row index) in that case and neither otherwise.
C8_SetColumnAndTriplets ==
    (pc = "done" /\ args.op = "confidence" /\ ret.kind = "ok") =>
        LET in == heap0[args.df]
            out == ret.df
            has(label) == \E c \in 1..NCols(out) : out.columns[c] = label
        IN  /\ has(l_set) <=> (NCols(in) % 3 = 1)
            /\ has(l_img_file) <=> (NCols(in) % 3 = 1)
            /\ NRows(out) = NRows(in)
            /\ \A r \in 1..NRows(in) :
                 /\ \A c \in 1..Len(args.keypoint_names) :
                        CellAt(out, r, args.keypoint_names[c]) =
                            in.rows[r][3 * c]
                 /\ NCols(in) % 3 = 1 =>
                        /\ CellAt(out, r, l_set) = in.rows[r][NCols(in)]
                        /\ CellAt(out, r, l_img_file) = in.index[r]

\* a table of two triplets and a "set" column gave a result with "set"
C8_Witness ==
    /\ pc = "done"
    /\ args.op = "confidence"
    /\ ret.kind = "ok"
    /\ NCols(heap0[args.df]) = 7
    /\ NRows(heap0[args.df]) = 2
    /\ Len(args.keypoint_names) = 2
    /\ ret.df.columns =
         << <<"A">>, <<"B">>, l_model_name, l_mean, l_set, l_img_file >>

\* a table is malformed when its column count is not a multiple of 3 plus an
\* optional 1, or when its triplets are not one per keypoint name
Malformed(df, keypoint_names) ==
    \/ NCols(df) % 3 = 2
    \/ TripletColumns(df) # 3 * Len(keypoint_names)

\* C9: compute_confidence fails at the reshape for every malformed table and
\* returns no table for it.
C9_MalformedFailsAtReshape ==
    (/\ pc = "done"
     /\ args.op = "confidence"
     /\ Malformed(heap0[args.df], args.keypoint_names))
    => ret.kind = "ValueError"

\* the part of C9 the code satisfies: a column count of 2 mod 3 fails at the
\* reshape
C9_TwoMod3Fails ==
    (pc = "done" /\ args.op = "confidence" /\ NCols(heap0[args.df]) % 3 = 2)
    => ret.kind = "ValueError"

----------------------------------------------------------------------------
(* build_precomputed_metrics_df                                            *)

pix_error_key == "pixel error"
conf_error_key == "confidence"
temp_norm_error_key == "temporal norm"
pcamv_error_key == "pca multiview"
pcasv_error_key == "pca singleview"

w_confidence == <<"c","o","n","f","i","d","e","n","c","e">>
w_single == <<"s","i","n","g","l","e">>
w_multi == <<"m","u","l","t","i">>
w_pixel == <<"p","i","x","e","l">>

\* lines 148-155: the bucket the pixel-error-shaped table of a metric file
\* goes to, "" for none
ErrorBucket_multiFirst(metric_name) ==
    IF Contains(metric_name, w_multi) THEN pcamv_error_key
    ELSE IF Contains(metric_name, w_single) THEN pcasv_error_key
    ELSE IF Contains(metric_name, w_temporal) THEN temp_norm_error_key
    ELSE IF Contains(metric_name, w_pixel) THEN pix_error_key
    ELSE ""

ErrorBucket(metric_name) ==
    IF Contains(metric_name, w_single) THEN pcasv_error_key
    ELSE IF Contains(metric_name, w_multi) THEN pcamv_error_key
    ELSE IF Contains(metric_name, w_temporal) THEN temp_norm_error_key
    ELSE IF Contains(metric_name, w_pixel) THEN pix_error_key
    ELSE ""

\* lines 142-147: what the loop body does after `at` ("file": the body
\* starts) for a metric file: "conf" is the call of compute_confidence, "err"
\* the call of get_precomputed_error, "next" the next file
StepOrder_errorFirst(at, metric_name) ==
    CASE at = "file" -> "err"
      [] at = "err" ->
            IF Contains(metric_name, w_confidence) THEN "conf" ELSE "next"
      [] at = "conf" -> "next"

StepOrder(at, metric_name) ==
    CASE at = "file" ->
            IF Contains(metric_name, w_confidence) THEN "conf" ELSE "err"
      [] at = "conf" -> "err"
      [] at = "err" -> "next"

\* concat_dfs[key].append(entry) on a defaultdict(list)
BucketAppend(buckets, key, entry) ==
    [k \in DOMAIN buckets \cup {key} |->
        IF k = key
        THEN (IF key \in DOMAIN buckets THEN buckets[key] ELSE <<>>)
                 \o <<entry>>
        ELSE buckets[k]]

\* the labels of the tables of q, each once, in order of first appearance
RECURSIVE UnionColumns(_, _)
UnionColumns(q, seen) ==
    IF q = <<>> THEN seen
    ELSE UnionColumns(Tail(q),
             seen \o SelectSeq(Head(q).columns,
                               LAMBDA l : l \notin Range(seen)))

\* pd.concat(q) of uniquely labelled tables: the rows of each table in turn
\* under the union of the columns, missing cells NaN
RECURSIVE StackRows(_, _)
StackRows(q, columns) ==
    IF q = <<>> THEN DataFrame(<<>>, columns, <<>>)
    ELSE LET df == Head(q)
             rest == StackRows(Tail(q), columns)
             rows == [r \in 1..NRows(df) |->
                         [c \in 1..Len(columns) |->
                             IF ColPositions(df, columns[c]) = <<>> THEN NaN
                             ELSE CellAt(df, r, columns[c])]]
         IN  DataFrame(df.index \o rest.index, columns, rows \o rest.rows)

PdConcatRows(q) == StackRows(q, UnionColumns(q, <<>>))

\* a bucket entry is a table of its own (compute_confidence's result) or a
\* reference to the table passed in (get_precomputed_error's result)
Deref(entry) == IF "ref" \in DOMAIN entry THEN heap[entry.ref] ELSE entry.df

\* the loop over dframes.items() and df_dict.items(): the position after
\* (i, j), <<Len(dframes) + 1, 1>> past the last file
RECURSIVE NextFile(_, _, _)
NextFile(dframes, i, j) ==
    IF i > Len(dframes) THEN <<i, 1>>
    ELSE IF j < Len(dframes[i].files) THEN <<i, j + 1>>
    ELSE IF i = Len(dframes) \/ Len(dframes[i + 1].files) > 0
         THEN <<i + 1, 1>>
         ELSE NextFile(dframes, i + 1, 0)

FirstFile(dframes) ==
    IF Len(dframes[1].files) > 0 THEN <<1, 1>> ELSE NextFile(dframes, 1, 0)

\* the position of the call once the loop stands at file `at`
PcAt(dframes, at) ==
    IF at[1] > Len(dframes) THEN "concat"
    ELSE StepOrder("file", dframes[at[1]].files[at[2]].metric)

CurModel == args.dframes[loop.i]
CurFile == CurModel.files[loop.j]

\* the loop body moves on from step `at` of the current file
MoveOn(at, buckets) ==
    LET to == StepOrder(at, CurFile.metric)
        nxt == NextFile(args.dframes, loop.i, loop.j)
    IN  IF to = "next"
        THEN /\ loop' = [i |-> nxt[1], j |-> nxt[2], concat_dfs |-> buckets]
             /\ pc' = PcAt(args.dframes, nxt)
        ELSE /\ loop' = [loop EXCEPT !.concat_dfs = buckets]
             /\ pc' = to

\* lines 143-145
StepConfidence ==
    /\ pc = "conf"
    /\ LET out == compute_confidence(heap[CurFile.df], args.keypoint_names,
                                     CurModel.name)
       IN  IF out.kind = "ok"
           THEN /\ MoveOn("conf", BucketAppend(loop.concat_dfs, conf_error_key,
                                               [df |-> out.df]))
                /\ UNCHANGED ret
           ELSE /\ pc' = "raised"
                /\ ret' = [kind |-> out.kind]
                /\ UNCHANGED loop
    /\ UNCHANGED <<fs, args, heap, heap0>>

\* lines 147-155
StepError ==
    /\ pc = "err"
    /\ LET out == get_precomputed_error(heap[CurFile.df], args.keypoint_names,
                                        CurModel.name)
           key == ErrorBucket(CurFile.metric)
       IN  /\ heap' = [heap EXCEPT ![CurFile.df] = out.df]
           /\ IF out.kind = "ok"
              THEN /\ MoveOn("err",
                             IF key = "" THEN loop.concat_dfs
                             ELSE BucketAppend(loop.concat_dfs, key,
                                               [ref |-> CurFile.df]))
                   /\ UNCHANGED ret
              ELSE /\ pc' = "raised"
                   /\ ret' = [kind |-> out.kind]
                   /\ UNCHANGED loop
    /\ UNCHANGED <<fs, args, heap0>>

\* lines 157-160
StepConcat ==
    /\ pc = "concat"
    /\ ret' = [kind |-> "ok",
               value |-> [key \in DOMAIN loop.concat_dfs |->
                             PdConcatRows([k \in 1..Len(loop.concat_dfs[key]) |->
                                 Deref(loop.concat_dfs[key][k])])]]
    /\ pc' = "done"
    /\ UNCHANGED <<fs, args, heap, heap0, loop>>

MaxMetricFiles == 2

\* metric file names: each of the four substrings alone or with one of lower
\* priority, with or without "confidence", and one with none of them
MetricNames ==
    { w_multi \o <<"_">> \o w_single,
      w_temporal \o <<"_">> \o w_multi,
      w_pixel \o <<"_">> \o w_temporal,
      w_pixel \o <<"_">> \o w_confidence,
      w_confidence,
      w_other }

\* the tables a metric file can hold: two triplets and "set"; a label column
\* and one column per keypoint; one triplet and two more columns; a label
\* column alone
BuildTables ==
    { MetricTable(1, TripletLabels(2) \o <<l_set>>),
      MetricTable(1, <<l_img>> \o ErrorLabels(2)),
      MetricTable(1, TripletLabels(1) \o <<l_set, <<"z">> >>),
      MetricTable(1, <<l_img>>) }

\* the models of a call, named in the mapping's order
BuildModels == << <<"m","1">>, <<"m","2">>, <<"m","3">> >>

\* every model has the same metric files; each file's table is an object of
\* its own ("own"), or the models share the table objects of the files
\* ("shared")
InitBuild ==
    /\ fs = {}
    /\ \E models \in {SubSeq(BuildModels, 1, n) : n \in 1..MaxModels},
          metrics \in DistinctSeqs(MetricNames, MaxMetricFiles),
          sharing \in {"own", "shared"} :
         LET n == Len(models)
             m == Len(metrics)
             obj(i, j) == IF sharing = "own" THEN (i - 1) * m + j ELSE j
             dframes == [i \in 1..n |->
                            [name |-> models[i],
                             files |-> [j \in 1..m |->
                                 [metric |-> metrics[j], df |-> obj(i, j)]]]]
         IN  /\ n >= 1
             /\ \E tables \in [1..n -> BuildTables] :
                  heap = [o \in 1..(IF sharing = "own" THEN n * m ELSE m) |->
                             tables[((o - 1) \div (IF m = 0 THEN 1 ELSE m)) + 1]]
             /\ args = [dframes |-> dframes,
                        keypoint_names |-> SubSeq(AllKeypoints, 1, 2)]
             /\ loop = [i |-> FirstFile(dframes)[1],
                        j |-> FirstFile(dframes)[2],
                        concat_dfs |-> <<>>]
             /\ pc = PcAt(dframes, FirstFile(dframes))
    /\ heap0 = heap
    /\ ret = NoRet

NextBuild == StepConfidence \/ StepError \/ StepConcat

SpecBuild == InitBuild /\ [][NextBuild]_vars

\* the metric files in the order the loops visit them
RECURSIVE FilesFrom(_, _)
FilesFrom(dframes, i) ==
    IF i > Len(dframes) THEN <<>>
    ELSE [j \in 1..Len(dframes[i].files) |->
             [i |-> i, j |-> j, metric |-> dframes[i].files[j].metric,
              df |-> dframes[i].files[j].df]]
         \o FilesFrom(dframes, i + 1)

AllFiles == FilesFrom(args.dframes, 1)

\* the loop body has finished for file f
Finished(f) == f.i < loop.i \/ (f.i = loop.i /\ f.j < loop.j)

\* compute_confidence has returned for file f
ConfidenceTaken(f) ==
    \/ Finished(f)
    \/ (f.i = loop.i /\ f.j = loop.j /\ pc = "err")

\* the bucket the claim gives a metric name: the first of "single", "multi",
\* "temporal", "pixel" the name contains, in that order
StatedBucket(metric_name) ==
    CASE Contains(metric_name, w_single) -> "pca singleview"
      [] ~Contains(metric_name, w_single) /\ Contains(metric_name, w_multi) ->
            "pca multiview"
      [] /\ ~Contains(metric_name, w_single) /\ ~Contains(metric_name, w_multi)
         /\ Contains(metric_name, w_temporal) -> "temporal norm"
      [] /\ ~Contains(metric_name, w_single) /\ ~Contains(metric_name, w_multi)
         /\ ~Contains(metric_name, w_temporal)
         /\ Contains(metric_name, w_pixel) -> "pixel error"
      [] OTHER -> "dropped"

\* C6: the pixel-error-shaped table of a file is appended to the one bucket
\* the first matching substring of its metric name selects (single, multi,
\* temporal, pixel) or to none; a confidence table is appended exactly for
\* the names containing "confidence"; a bucket is a key of the mapping, and
\* of the result, only if it received a table.
C6_Buckets ==
    pc \in {"conf", "err", "concat", "done"} =>
        /\ \A key \in {"pca singleview", "pca multiview", "temporal norm",
                       "pixel error"} :
             LET into == SelectSeq(AllFiles,
                             LAMBDA f : Finished(f) /\
                                        StatedBucket(f.metric) = key)
             IN  IF into = <<>> THEN key \notin DOMAIN loop.concat_dfs
                 ELSE /\ key \in DOMAIN loop.concat_dfs
                      /\ [k \in 1..Len(loop.concat_dfs[key]) |->
                             loop.concat_dfs[key][k].ref]
                         = [k \in 1..Len(into) |-> into[k].df]
        /\ LET conf == SelectSeq(AllFiles,
                           LAMBDA f : ConfidenceTaken(f) /\
                                      Contains(f.metric, w_confidence))
           IN  IF conf = <<>> THEN "confidence" \notin DOMAIN loop.concat_dfs
               ELSE /\ "confidence" \in DOMAIN loop.concat_dfs
                    /\ Len(loop.concat_dfs["confidence"]) = Len(conf)
        /\ DOMAIN loop.concat_dfs \subseteq
               {"pca singleview", "pca multiview", "temporal norm",
                "pixel error", "confidence"}
        /\ pc = "done" => DOMAIN ret.value = DOMAIN loop.concat_dfs

\* two models with the files "multi_single" and "pixel_confidence" were
\* built: three buckets, two tables each, "single" having won over "multi"
C6_Witness ==
    /\ pc = "done"
    /\ Len(args.dframes) = 2
    /\ DOMAIN ret.value = {"pca singleview", "pixel error", "confidence"}
    /\ Len(loop.concat_dfs["pca singleview"]) = 2
    /\ Len(loop.concat_dfs["confidence"]) = 2
    /\ NRows(ret.value["pixel error"]) = 2

\* no table object is the table of two metric files
NoSharedTable ==
    \A a, b \in 1..Len(AllFiles) : a # b => AllFiles[a].df # AllFiles[b].df

\* C10: when compute_confidence is called for a metric file, the file's
\* table is as it was passed in (get_precomputed_error has not yet added
\* columns or renamed the first one), provided no table object appears twice
\* in the input.
C10_ConfidenceBeforeError ==
    (pc = "conf" /\ NoSharedTable) =>
        /\ heap[CurFile.df].columns = heap0[CurFile.df].columns
        /\ heap[CurFile.df].index = heap0[CurFile.df].index
        /\ heap[CurFile.df].rows = heap0[CurFile.df].rows

\* compute_confidence is about to run for the last file of the second model
\* after get_precomputed_error has changed the tables of earlier files
C10_Witness ==
    /\ pc = "conf"
    /\ NoSharedTable
    /\ loop.i = 2
    /\ loop.j = 2
    /\ \E o \in DOMAIN heap : NCols(heap[o]) = NCols(heap0[o]) + 2
    /\ NCols(heap[CurFile.df]) = NCols(heap0[CurFile.df])

\* with a table object shared by two files the proviso of C10 is needed: the
\* second file's compute_confidence reads the changed table
C10_SharedTableChanged ==
    /\ pc = "conf"
    /\ ~NoSharedTable
    /\ NCols(heap[CurFile.df]) = NCols(heap0[CurFile.df]) + 2

====
